---- MODULE Spec2Model ----
(***************************************************************************)
(* The delayed-task scheduler of queue.go: the due-time heap with its      *)
(* condition-variable wake loop (reapQueue.Update / reapQueue.WaitForNext),*)
(* the dispatch loop (reapScheduler / sendWorkItem), the two worker        *)
(* functions (Bot.reapWorker / Bot.loadWorker) and the backoff policy      *)
(* (Bot.QueueLoadBacklog).  One queue instance is modelled; which worker   *)
(* function it was started with is fixed in the initial state.             *)
(*                                                                         *)
(* Times are counted in clock ticks.  time.Time{} (the zero time passed by *)
(* CancelReap) is tick 0 and the clock starts at tick 1.                   *)
(*                                                                         *)
(* Spec is the whole system.  Its state space is the product of the queue  *)
(* with its clock and of the worker pool, so the properties are checked    *)
(* under restrictions of it: SpecQueue (the clock runs, one worker, prompt *)
(* hand-off), SpecPool (both worker functions, every pool size, the clock  *)
(* standing still), SpecFair and SpecLoadFair (the reap and the load queue *)
(* under weak fairness), SpecThree (three channels due at once, two        *)
(* workers), SpecWake (entries in the heap and no further Update),         *)
(* SpecBackoff (QueueLoadBacklog alone, with a narrowed time.Duration) and *)
(* SpecRetry (consecutive failing loads of one channel).                   *)
(***************************************************************************)
EXTENDS Integers, Sequences, FiniteSets, TLC

\* ------------------------------------------------------------------ bounds
NumChans == 3          \* number of distinct *ManagedChannel values
MaxTime == 2           \* latest due time a caller passes to Update
MaxWorkers == 2        \* largest maxWorkerCount given to newReapQueue
MaxDelay == 1          \* largest stored load delay reached in Spec
MaxCalls == 3          \* failing QueueLoadBacklog calls followed for one channel in SpecRetry
DurationBits == 6      \* width of the (narrowed) time.Duration in SpecBackoff

\* -------------------------------------------------------- program constants
GuardInterval == 1     \* the 2ms added to waitTime, rounded up to one tick
JitterCeil == 5        \* 5*time.Second, the argument of mrand.Intn, in ticks

Chans == 1..NumChans
zeroTime == 0
DueTimes == 0..MaxTime
MaxClock == MaxTime + GuardInterval
Slots == 1..(MaxWorkers + 1)
NoChan == 0

VARIABLES
  wfunc,        \* "reap" or "load": the workerFunc given to reapScheduler
  maxWorkerCount, \* the argument of newReapQueue: cap(q.controlCh)
  now,          \* the wall clock, time.Now()
  items,        \* *q.items: the heap array, a sequence of pqItem
  locker,       \* holder of q.cond.L: "free" or "sched"
  qtimer,       \* q.timer: [at |-> deadline or -1 when not armed, c |-> values buffered in timer.C]
  watcher,      \* the goroutine of newReapQueue: "recv" (<-q.timer.C) or "signal"
  sched,        \* the reapScheduler goroutine: pc and locals
  dtimer,       \* reapScheduler's timer: "armed", "full" (expired, value in C), "empty" (expired, C drained)
  controlCh,    \* number of workerTokens buffered in q.controlCh
  curWork,      \* q.curWork, the in-flight set
  workers,      \* the worker goroutines, one record per slot
  loadFailures, \* c.loadFailures of every channel
  lastSet,      \* history: the t of the latest Update of a channel since its last pop
  dropped,      \* history: channels for which handleCriticalPermissionsErrors returned true
  loadRetries,  \* b.loadRetries seen from the reap queue: the t of the latest Update its workers made there, -1 when none
  calls         \* history: the delays scheduled by the failing calls RetryLoadBacklog made for a channel

vars == <<wfunc, maxWorkerCount, now, items, locker, qtimer, watcher, sched, dtimer,
          controlCh, curWork, workers, loadFailures, lastSet, dropped, loadRetries, calls>>

\* ------------------------------------------------------- priorityQueue
\* a comparison the wrong way round (what the comment in Less describes)
LessAfter(pq, i, j) == pq[i + 1].nextReap > pq[j + 1].nextReap

Less(pq, i, j) == pq[i + 1].nextReap < pq[j + 1].nextReap

Swap(pq, i, j) ==
  [k \in 1..Len(pq) |->
     IF k = i + 1 THEN [pq[j + 1] EXCEPT !.index = i]
     ELSE IF k = j + 1 THEN [pq[i + 1] EXCEPT !.index = j]
     ELSE pq[k]]

Push(pq, x) == Append(pq, [x EXCEPT !.index = Len(pq)])

Pop(pq) ==
  [item |-> [pq[Len(pq)] EXCEPT !.index = -1], pq |-> SubSeq(pq, 1, Len(pq) - 1)]

NoItem == [ch |-> NoChan, nextReap |-> 0, index |-> -1]

Peek(pq) == IF Len(pq) = 0 THEN NoItem ELSE pq[1]

\* container/heap, as called on the priorityQueue (0-based indices as in Go)
RECURSIVE up(_, _)
up(pq, j) ==
  LET i == IF j = 0 THEN 0 ELSE (j - 1) \div 2
  IN IF i = j \/ ~Less(pq, j, i) THEN pq ELSE up(Swap(pq, i, j), i)

RECURSIVE down(_, _, _)
down(pq, i, n) ==
  LET j1 == 2 * i + 1
      j2 == j1 + 1
      j  == IF j2 < n /\ Less(pq, j2, j1) THEN j2 ELSE j1
  IN IF j1 >= n THEN [pq |-> pq, i |-> i]
     ELSE IF ~Less(pq, j, i) THEN [pq |-> pq, i |-> i]
     ELSE down(Swap(pq, i, j), j, n)

HeapPush(pq, x) == up(Push(pq, x), Len(pq))

HeapFix(pq, i) ==
  LET d == down(pq, i, Len(pq))
  IN IF d.i > i THEN d.pq ELSE up(pq, i)

HeapPop(pq) ==
  LET n == Len(pq) - 1
  IN Pop(down(Swap(pq, 0, n), 0, n).pq)

\* ------------------------------------------------------------ sync.Cond
\* q.cond.Signal(): wakes the scheduler if it is parked in q.cond.Wait(),
\* and is lost otherwise.  The woken goroutine still has to re-lock q.cond.L.
Signal(s) == IF s.pc = "wait" THEN [s EXCEPT !.pc = "woken"] ELSE s

\* ------------------------------------------------------- reapQueue.Update
IndexOf(pq, ch) ==
  IF \E i \in 1..Len(pq) : pq[i].ch = ch
  THEN (CHOOSE i \in 1..Len(pq) : pq[i].ch = ch /\ \A k \in 1..(i - 1) : pq[k].ch # ch) - 1
  ELSE -1

\* an Update that does not look for the existing entry
UpsertNoScan(pq, ch, t) == HeapPush(pq, [ch |-> ch, nextReap |-> t, index |-> 0])

Upsert(pq, ch, t) ==
  LET idx == IndexOf(pq, ch)
  IN IF idx = -1
     THEN HeapPush(pq, [ch |-> ch, nextReap |-> t, index |-> 0])
     ELSE HeapFix([pq EXCEPT ![idx + 1].nextReap = t], idx)

\* an Update that changes the heap but does not signal the condition variable
UpdateEffectNoSignal(ch, t) ==
  /\ locker = "free"
  /\ items' = Upsert(items, ch, t)
  /\ lastSet' = [lastSet EXCEPT ![ch] = <<t>>]
  /\ UNCHANGED <<locker, sched>>

\* The whole of Update runs under q.cond.L.
UpdateEffect(ch, t) ==
  /\ locker = "free"
  /\ items' = Upsert(items, ch, t)
  /\ sched' = Signal(sched)
  /\ lastSet' = [lastSet EXCEPT ![ch] = <<t>>]
  /\ UNCHANGED locker

\* Update called from outside the queue's own workers (QueueReap, CancelReap,
\* or QueueLoadBacklog of some other goroutine with didFail = false).
Update(ch, t) ==
  /\ UpdateEffect(ch, t)
  /\ UNCHANGED <<wfunc, calls, loadRetries, maxWorkerCount, now, qtimer, watcher, dtimer, controlCh, curWork, workers,
                 loadFailures, dropped>>

Tick ==
  /\ now < MaxClock
  /\ now' = now + 1
  /\ UNCHANGED <<wfunc, calls, loadRetries, maxWorkerCount, items, locker, qtimer, watcher, sched, dtimer, controlCh,
                 curWork, workers, loadFailures, lastSet, dropped>>

\* --------------------------------------------------------------- timers
\* The runtime delivers the expiry of q.timer into its one-slot channel.
QTimerFire ==
  /\ qtimer.at # -1
  /\ now >= qtimer.at
  /\ qtimer' = [at |-> -1, c |-> 1]
  /\ UNCHANGED <<wfunc, calls, loadRetries, maxWorkerCount, now, items, locker, watcher, sched, dtimer, controlCh,
                 curWork, workers, loadFailures, lastSet, dropped>>

\* newReapQueue's goroutine: <-q.timer.C
WatcherRecv ==
  /\ watcher = "recv"
  /\ qtimer.c = 1
  /\ qtimer' = [qtimer EXCEPT !.c = 0]
  /\ watcher' = "signal"
  /\ UNCHANGED <<wfunc, calls, loadRetries, maxWorkerCount, now, items, locker, sched, dtimer, controlCh, curWork,
                 workers, loadFailures, lastSet, dropped>>

\* newReapQueue's goroutine: q.cond.Signal(), without holding q.cond.L
WatcherSignal ==
  /\ watcher = "signal"
  /\ sched' = Signal(sched)
  /\ watcher' = "recv"
  /\ UNCHANGED <<wfunc, calls, loadRetries, maxWorkerCount, now, items, locker, qtimer, dtimer, controlCh, curWork,
                 workers, loadFailures, lastSet, dropped>>

\* The hand-off timer of reapScheduler expires (schedulerTimeout after its
\* Reset, or at once after NewTimer(0)).  The expiry is only looked at by
\* timer.Stop() and by the outer select, so it is taken just before them.
DTimerFire ==
  /\ sched.pc \in {"send", "select"}
  /\ dtimer = "armed"
  /\ dtimer' = "full"
  /\ UNCHANGED <<wfunc, calls, loadRetries, maxWorkerCount, now, items, locker, qtimer, watcher, sched, controlCh,
                 curWork, workers, loadFailures, lastSet, dropped>>

\* if !timer.Stop() { <-timer.C }; timer.Reset(d)
\* "blocked" when the timer has expired and its channel is already drained.
StopDrainReset(t) == IF t = "empty" THEN "blocked" ELSE "armed"

\* ------------------------------------------------------------- workers
NoWorker == [st |-> "none", ch |-> NoChan, mayTimeout |-> FALSE, timer |-> "none",
             refresh |-> FALSE]

\* go workerFunc(q, mayTimeout); loadWorker begins with time.NewTimer(0)
NewWorker(mayTimeout) ==
  [st |-> "idle", ch |-> NoChan, mayTimeout |-> mayTimeout,
   timer |-> IF wfunc = "load" THEN "armed" ELSE "none", refresh |-> FALSE]

FreeSlot == CHOOSE w \in Slots : workers[w].st = "none" /\ \A v \in Slots : v < w => workers[v].st # "none"

Live(w) == workers[w].st \in {"idle", "work", "requeue", "blocked"}

\* ------------------------------------------------------- reapScheduler
\* q.controlCh <- workerToken{}; go workerFunc(q, false); timer := time.NewTimer(0)
SchedStart ==
  /\ sched.pc = "start"
  /\ controlCh < maxWorkerCount
  /\ controlCh' = controlCh + 1
  /\ \E w \in Slots : workers[w].st = "none"
  /\ workers' = [workers EXCEPT ![FreeSlot] = NewWorker(FALSE)]
  /\ dtimer' = "armed"
  /\ sched' = [sched EXCEPT !.pc = "lock"]
  /\ UNCHANGED <<wfunc, calls, loadRetries, maxWorkerCount, now, items, locker, qtimer, watcher, curWork, loadFailures,
                 lastSet, dropped>>

\* a WaitForNext that pops whatever is at the root
IsDueAlways(it, t) == TRUE

\* !it.nextReap.After(now)
IsDue(it, t) == ~(it.nextReap > t)

\* WaitForNext from q.cond.L.Lock() (or from the re-lock that ends
\* q.cond.Wait()) through the label start to the Wait, the Reset or the Pop.
WaitForNextEval ==
  /\ sched.pc \in {"lock", "woken"}
  /\ locker = "free"
  /\ LET it == Peek(items)
     IN IF it.ch = NoChan
        THEN /\ sched' = [sched EXCEPT !.pc = "wait"]
             /\ UNCHANGED <<items, locker, qtimer, lastSet>>
        ELSE IF ~IsDue(it, now)
        THEN /\ qtimer' = [qtimer EXCEPT !.at = now + (it.nextReap - now) + GuardInterval]
             /\ sched' = [sched EXCEPT !.pc = "armed"]
             /\ locker' = "sched"
             /\ UNCHANGED <<items, lastSet>>
        ELSE /\ items' = HeapPop(items).pq
             /\ sched' = [sched EXCEPT !.pc = "popped", !.now = now, !.it = HeapPop(items).item]
             /\ locker' = "sched"
             /\ lastSet' = [lastSet EXCEPT ![it.ch] = <<>>]
             /\ UNCHANGED qtimer
  /\ UNCHANGED <<wfunc, calls, loadRetries, maxWorkerCount, now, watcher, dtimer, controlCh, curWork, workers,
                 loadFailures, dropped>>

\* q.cond.Wait() after q.timer.Reset: unlocks and parks in one step
WaitForNextWait ==
  /\ sched.pc = "armed"
  /\ sched' = [sched EXCEPT !.pc = "wait"]
  /\ locker' = "free"
  /\ UNCHANGED <<wfunc, calls, loadRetries, maxWorkerCount, now, items, qtimer, watcher, dtimer, controlCh, curWork,
                 workers, loadFailures, lastSet, dropped>>

\* a WaitForNext that returns without q.cond.L.Unlock()
WaitForNextReturnLocked ==
  /\ sched.pc = "popped"
  /\ sched' = [sched EXCEPT !.pc = "gate", !.ch = sched.it.ch, !.it = NoItem, !.now = 0]
  /\ UNCHANGED <<wfunc, calls, loadRetries, maxWorkerCount, now, items, locker, qtimer, watcher, dtimer,
                 controlCh, curWork, workers, loadFailures, lastSet, dropped>>

\* q.cond.L.Unlock(); return it.ch
WaitForNextReturn ==
  /\ sched.pc = "popped"
  /\ sched' = [sched EXCEPT !.pc = "gate", !.ch = sched.it.ch, !.it = NoItem, !.now = 0]
  /\ locker' = "free"
  /\ UNCHANGED <<wfunc, calls, loadRetries, maxWorkerCount, now, items, qtimer, watcher, dtimer, controlCh, curWork,
                 workers, loadFailures, lastSet, dropped>>

\* a dispatch loop that does not look at q.curWork
GateNoCheck ==
  /\ sched.pc = "gate"
  /\ sched' = [sched EXCEPT !.pc = "send"]
  /\ curWork' = curWork \cup {sched.ch}
  /\ UNCHANGED <<wfunc, calls, loadRetries, maxWorkerCount, now, items, locker, qtimer, watcher, dtimer,
                 controlCh, workers, loadFailures, lastSet, dropped>>

\* the in-flight gate, under q.curMu
Gate ==
  /\ sched.pc = "gate"
  /\ IF sched.ch \in curWork
     THEN sched' = [sched EXCEPT !.pc = "lock", !.ch = NoChan] /\ UNCHANGED curWork
     ELSE sched' = [sched EXCEPT !.pc = "send"] /\ curWork' = curWork \cup {sched.ch}
  /\ UNCHANGED <<wfunc, calls, loadRetries, maxWorkerCount, now, items, locker, qtimer, watcher, dtimer, controlCh,
                 workers, loadFailures, lastSet, dropped>>

\* sendWorkItem: top of the for loop
SendStopReset ==
  /\ sched.pc = "send"
  /\ IF StopDrainReset(dtimer) = "blocked"
     THEN sched' = [sched EXCEPT !.pc = "drain"] /\ UNCHANGED dtimer
     ELSE sched' = [sched EXCEPT !.pc = "select"] /\ dtimer' = "armed"
  /\ UNCHANGED <<wfunc, calls, loadRetries, maxWorkerCount, now, items, locker, qtimer, watcher, controlCh, curWork,
                 workers, loadFailures, lastSet, dropped>>

\* a worker receives from q.workCh what the dispatcher sends
Receive(w, ch) == [workers EXCEPT ![w].st = "work", ![w].ch = ch]

\* outer select, case q.workCh <- work: return
SendHandOff(w) ==
  /\ sched.pc = "select"
  /\ workers[w].st = "idle"
  /\ workers' = Receive(w, sched.ch)
  /\ sched' = [sched EXCEPT !.pc = "lock", !.ch = NoChan]
  /\ UNCHANGED <<wfunc, calls, loadRetries, maxWorkerCount, now, items, locker, qtimer, watcher, dtimer, controlCh,
                 curWork, loadFailures, lastSet, dropped>>

\* outer select, case <-timer.C
SendTimeout ==
  /\ sched.pc = "select"
  /\ dtimer = "full"
  /\ dtimer' = "empty"
  /\ sched' = [sched EXCEPT !.pc = "select2"]
  /\ UNCHANGED <<wfunc, calls, loadRetries, maxWorkerCount, now, items, locker, qtimer, watcher, controlCh, curWork,
                 workers, loadFailures, lastSet, dropped>>

\* a dispatcher that starts the worker without acquiring a slot
SendSpawnNoToken ==
  /\ sched.pc = "select2"
  /\ \E w \in Slots : workers[w].st = "none"
  /\ workers' = [workers EXCEPT ![FreeSlot] = NewWorker(TRUE)]
  /\ sched' = [sched EXCEPT !.pc = "send"]
  /\ UNCHANGED <<wfunc, calls, loadRetries, maxWorkerCount, now, items, locker, qtimer, watcher, dtimer,
                 controlCh, curWork, loadFailures, lastSet, dropped>>

\* inner select, case q.controlCh <- workerToken{}: go workerFunc(q, true); continue
SendSpawn ==
  /\ sched.pc = "select2"
  /\ controlCh < maxWorkerCount
  /\ controlCh' = controlCh + 1
  /\ \E w \in Slots : workers[w].st = "none"
  /\ workers' = [workers EXCEPT ![FreeSlot] = NewWorker(TRUE)]
  /\ sched' = [sched EXCEPT !.pc = "send"]
  /\ UNCHANGED <<wfunc, calls, loadRetries, maxWorkerCount, now, items, locker, qtimer, watcher, dtimer, curWork,
                 loadFailures, lastSet, dropped>>

\* inner select, case q.workCh <- work: return
SendHandOffLate(w) ==
  /\ sched.pc = "select2"
  /\ workers[w].st = "idle"
  /\ workers' = Receive(w, sched.ch)
  /\ sched' = [sched EXCEPT !.pc = "lock", !.ch = NoChan]
  /\ UNCHANGED <<wfunc, calls, loadRetries, maxWorkerCount, now, items, locker, qtimer, watcher, dtimer, controlCh,
                 curWork, loadFailures, lastSet, dropped>>

\* ------------------------------------------------- Bot.QueueLoadBacklog
\* time.Duration is an int64: the sum wraps around silently.
Int64(x) ==
  LET half == 2 ^ (DurationBits - 1)
  IN ((x + half) % (2 * half)) - half

\* a backoff that adds the jitter without doubling the stored delay
NextDelayNoDouble(loadDelay, jitter) == Int64(loadDelay + jitter)

NextDelay(loadDelay, jitter) == Int64(loadDelay * 2 + jitter)

LoadDelay(c, didFail, jitter) ==
  IF didFail THEN NextDelay(loadFailures[c], jitter) ELSE loadFailures[c]

\* jitter values mrand.Intn may return that keep the delay within MaxDelay
Jitters(c) == {j \in 0..(JitterCeil - 1) : loadFailures[c] * 2 + j <= MaxDelay}

\* b.loadRetries is this queue when it runs loadWorker; the reap queue's
\* workers upsert into the other instance.
QueueLoadBacklog(c, didFail, jitter) ==
  /\ loadFailures' = [loadFailures EXCEPT ![c] = LoadDelay(c, didFail, jitter)]
  /\ IF wfunc = "load"
     THEN UpdateEffect(c, now + LoadDelay(c, didFail, jitter))
     ELSE UNCHANGED <<items, sched, lastSet, locker>>

\* QueueLoadBacklog called from outside the queue's own workers
CallQueueLoadBacklog(c, didFail, jitter) ==
  /\ QueueLoadBacklog(c, didFail, jitter)
  /\ UNCHANGED <<wfunc, calls, loadRetries, maxWorkerCount, now, qtimer, watcher, dtimer, controlCh, curWork,
                 workers, dropped>>

\* QueueLoadBacklog(c, true) called from outside the queue's own workers, the
\* delay it schedules being recorded
RetryLoadBacklog(c, jitter) ==
  /\ Len(calls[c]) < MaxCalls
  /\ QueueLoadBacklog(c, TRUE, jitter)
  /\ calls' = [calls EXCEPT ![c] = Append(@, LoadDelay(c, TRUE, jitter))]
  /\ UNCHANGED <<wfunc, loadRetries, maxWorkerCount, now, qtimer, watcher, dtimer, controlCh, curWork,
                 workers, dropped>>

\* ------------------------------------------------------- Bot.reapWorker
\* collectMessagesToDelete reports isDisabled: continue
ReapDisabled(w) ==
  /\ wfunc = "reap"
  /\ workers[w].st = "work"
  /\ workers' = [workers EXCEPT ![w].st = "idle", ![w].ch = NoChan]
  /\ UNCHANGED <<wfunc, calls, loadRetries, maxWorkerCount, now, items, locker, qtimer, watcher, sched, dtimer, controlCh,
                 curWork, loadFailures, lastSet, dropped>>

\* a critical-error branch that clears the in-flight marker before continuing
ReapCriticalClears(w) ==
  /\ workers' = [workers EXCEPT ![w].st = "idle", ![w].ch = NoChan]
  /\ dropped' = dropped \cup {workers[w].ch}
  /\ curWork' = curWork \ {workers[w].ch}

\* handleCriticalPermissionsErrors returns true: continue
ReapCriticalEffect(w) ==
  /\ workers' = [workers EXCEPT ![w].st = "idle", ![w].ch = NoChan]
  /\ dropped' = dropped \cup {workers[w].ch}
  /\ UNCHANGED curWork

ReapCritical(w) ==
  /\ wfunc = "reap"
  /\ workers[w].st = "work"
  /\ ReapCriticalEffect(w)
  /\ UNCHANGED <<wfunc, calls, loadRetries, maxWorkerCount, now, items, locker, qtimer, watcher, sched, dtimer, controlCh,
                 loadFailures, lastSet>>

\* ch.Reap returned without a critical error: delete(q.curWork, ch).
\* shouldQueueBacklog is what collectMessagesToDelete said, or true on err.
ReapDone(w, shouldQueueBacklog) ==
  /\ wfunc = "reap"
  /\ workers[w].st = "work"
  /\ shouldQueueBacklog => Jitters(workers[w].ch) # {}
  /\ curWork' = curWork \ {workers[w].ch}
  /\ workers' = [workers EXCEPT ![w].st = "requeue", ![w].refresh = shouldQueueBacklog]
  /\ UNCHANGED <<wfunc, calls, loadRetries, maxWorkerCount, now, items, locker, qtimer, watcher, sched, dtimer, controlCh,
                 loadFailures, lastSet, dropped>>

\* b.QueueReap(ch); if shouldQueueBacklog { b.QueueLoadBacklog(ch, true) }
\* t is what ch.GetNextDeletionTime() returns.
\* the other queue's Update of QueueLoadBacklog done with time.Now() itself
LoadRetriesUpdateNow(c, jitter) == loadRetries' = [loadRetries EXCEPT ![c] = now]

\* b.loadRetries.Update(c, time.Now().Add(loadDelay)) made by a reap worker
LoadRetriesUpdate(c, jitter) ==
  loadRetries' = [loadRetries EXCEPT ![c] = now + LoadDelay(c, TRUE, jitter)]

ReapRequeue(w, t, jitter) ==
  /\ wfunc = "reap"
  /\ workers[w].st = "requeue"
  /\ UpdateEffect(workers[w].ch, t)
  /\ IF workers[w].refresh
     THEN /\ jitter \in Jitters(workers[w].ch)
          /\ loadFailures' = [loadFailures EXCEPT
                                ![workers[w].ch] = LoadDelay(workers[w].ch, TRUE, jitter)]
          /\ LoadRetriesUpdate(workers[w].ch, jitter)
     ELSE /\ jitter = 0
          /\ UNCHANGED <<loadFailures, loadRetries>>
  /\ workers' = [workers EXCEPT ![w].st = "idle", ![w].ch = NoChan, ![w].refresh = FALSE]
  /\ UNCHANGED <<wfunc, calls, maxWorkerCount, now, qtimer, watcher, dtimer, controlCh, curWork, dropped>>

\* ------------------------------------------------------- Bot.loadWorker
\* top of the for loop, then the select
LoopTop(wk) ==
  IF ~wk.mayTimeout
  THEN [wk EXCEPT !.st = "idle", !.ch = NoChan]
  ELSE IF StopDrainReset(wk.timer) = "blocked"
  THEN [wk EXCEPT !.st = "blocked", !.ch = NoChan]
  ELSE [wk EXCEPT !.st = "idle", !.ch = NoChan, !.timer = "armed"]

\* the worker's timer expires (at once after NewTimer(0), workerTimeout after
\* Reset); only the select looks at the expiry
LoadTimerFire(w) ==
  /\ wfunc = "load"
  /\ workers[w].st = "idle"
  /\ workers[w].timer = "armed"
  /\ workers' = [workers EXCEPT ![w].timer = "full"]
  /\ UNCHANGED <<wfunc, calls, loadRetries, maxWorkerCount, now, items, locker, qtimer, watcher, sched, dtimer, controlCh,
                 curWork, loadFailures, lastSet, dropped>>

\* case <-timer.C: return, and the deferred <-q.controlCh when mayTimeout
LoadReturn(w) ==
  /\ wfunc = "load"
  /\ workers[w].st = "idle"
  /\ workers[w].timer = "full"
  /\ IF workers[w].mayTimeout
     THEN /\ controlCh > 0
          /\ controlCh' = controlCh - 1
          /\ workers' = [workers EXCEPT ![w] = NoWorker]
     ELSE /\ workers' = [workers EXCEPT ![w].st = "exited", ![w].timer = "empty"]
          /\ UNCHANGED controlCh
  /\ UNCHANGED <<wfunc, calls, loadRetries, maxWorkerCount, now, items, locker, qtimer, watcher, sched, dtimer, curWork,
                 loadFailures, lastSet, dropped>>

\* ch.IsDisabled(): continue
LoadDisabled(w) ==
  /\ wfunc = "load"
  /\ workers[w].st = "work"
  /\ workers' = [workers EXCEPT ![w] = LoopTop(workers[w])]
  /\ UNCHANGED <<wfunc, calls, loadRetries, maxWorkerCount, now, items, locker, qtimer, watcher, sched, dtimer, controlCh,
                 curWork, loadFailures, lastSet, dropped>>

\* err := ch.LoadBacklog(); delete(q.curWork, ch); retryable is isRetryableLoadError(err)
LoadDone(w, retryable) ==
  /\ wfunc = "load"
  /\ workers[w].st = "work"
  /\ retryable => Jitters(workers[w].ch) # {}
  /\ curWork' = curWork \ {workers[w].ch}
  /\ workers' = [workers EXCEPT ![w] = IF retryable THEN [workers[w] EXCEPT !.st = "requeue"]
                                       ELSE LoopTop(workers[w])]
  /\ UNCHANGED <<wfunc, calls, loadRetries, maxWorkerCount, now, items, locker, qtimer, watcher, sched, dtimer, controlCh,
                 loadFailures, lastSet, dropped>>

\* b.QueueLoadBacklog(ch, true)
LoadRequeue(w, jitter) ==
  /\ wfunc = "load"
  /\ workers[w].st = "requeue"
  /\ jitter \in Jitters(workers[w].ch)
  /\ QueueLoadBacklog(workers[w].ch, TRUE, jitter)
  /\ workers' = [workers EXCEPT ![w] = LoopTop(workers[w])]
  /\ UNCHANGED <<wfunc, calls, loadRetries, maxWorkerCount, now, qtimer, watcher, dtimer, controlCh, curWork, dropped>>

\* --------------------------------------------------------- specification
InitWith(wf, m) ==
  /\ wfunc = wf
  /\ maxWorkerCount = m
  /\ now = 1
  /\ items = <<>>
  /\ locker = "free"
  /\ qtimer = [at |-> 1, c |-> 0]
  /\ watcher = "recv"
  /\ sched = [pc |-> "start", now |-> 0, it |-> NoItem, ch |-> NoChan]
  /\ dtimer = "none"
  /\ controlCh = 0
  /\ curWork = {}
  /\ workers = [w \in Slots |-> NoWorker]
  /\ loadFailures = [c \in Chans |-> 0]
  /\ lastSet = [c \in Chans |-> <<>>]
  /\ dropped = {}
  /\ loadRetries = [c \in Chans |-> -1]
  /\ calls = [c \in Chans |-> <<>>]

Init == \E wf \in {"reap", "load"}, m \in 1..MaxWorkers : InitWith(wf, m)

UpdateStep(C, T) == \E ch \in C, t \in T : Update(ch, t)

TimerStep == QTimerFire \/ WatcherRecv \/ WatcherSignal

\* the dispatch loop as long as a worker takes each item within schedulerTimeout
PromptStep ==
  \/ SchedStart
  \/ WaitForNextEval
  \/ WaitForNextWait
  \/ WaitForNextReturn
  \/ Gate
  \/ SendStopReset
  \/ \E w \in Slots : SendHandOff(w)

\* the hand-off timer expires
TimeoutStep ==
  \/ DTimerFire
  \/ SendTimeout
  \/ SendSpawn
  \/ \E w \in Slots : SendHandOffLate(w)

SchedStep == PromptStep \/ TimeoutStep

\* a reap run that ends in the reschedule path; T: what GetNextDeletionTime may
\* return, R: what shouldQueueBacklog may be
ReapRunStep(T, R) ==
  \/ \E w \in Slots, r \in R : ReapDone(w, r)
  \/ \E w \in Slots, t \in T, j \in 0..(JitterCeil - 1) : ReapRequeue(w, t, j)

ReapDropStep ==
  \/ \E w \in Slots : ReapDisabled(w)
  \/ \E w \in Slots : ReapCritical(w)

ReapStep(T) == ReapRunStep(T, BOOLEAN) \/ ReapDropStep

LoadStep ==
  \/ \E w \in Slots : LoadTimerFire(w)
  \/ \E w \in Slots : LoadReturn(w)
  \/ \E w \in Slots : LoadDisabled(w)
  \/ \E w \in Slots, r \in BOOLEAN : LoadDone(w, r)
  \/ \E w \in Slots, j \in 0..(JitterCeil - 1) : LoadRequeue(w, j)

Next == UpdateStep(Chans, DueTimes) \/ Tick \/ TimerStep \/ SchedStep \/ ReapStep(DueTimes) \/ LoadStep

Spec == Init /\ [][Next]_vars

\* The reap queue with the clock running, its floor worker taking every item
\* within schedulerTimeout and every reap run ending in the reschedule path.
InitQueue == InitWith("reap", 1)

NextQueue ==
  UpdateStep(Chans, DueTimes) \/ Tick \/ TimerStep \/ PromptStep \/ ReapRunStep(DueTimes, {FALSE})

SpecQueue == InitQueue /\ [][NextQueue]_vars

\* Both queue instances and every pool size, the clock standing still, every
\* deadline passed to Update being the current time, and Updates from outside
\* for all channels but the last.
PoolChans == 1..(NumChans - 1)

NextPool == UpdateStep(PoolChans, {now}) \/ TimerStep \/ SchedStep \/ ReapStep({now}) \/ LoadStep

SpecPool == Init /\ [][NextPool]_vars

\* The reap queue under the scheduling the Go runtime gives: every goroutine
\* that can take a step eventually takes one.  No reap run asks for a backlog
\* refresh.
NextFair ==
  \/ UpdateStep(PoolChans, {now, MaxTime})
  \/ TimerStep
  \/ SchedStep
  \/ ReapRunStep({now}, {FALSE})
  \/ ReapDropStep

SpecFair ==
  /\ InitWith("reap", MaxWorkers)
  /\ [][NextFair]_vars
  /\ WF_vars(SchedStep)
  /\ WF_vars(ReapRunStep({now}, {FALSE}) \/ ReapDropStep)

\* The backoff policy alone: calls of QueueLoadBacklog on the load queue before
\* its scheduler runs, with every jitter mrand.Intn can return.
NextBackoff ==
  \E c \in PoolChans, didFail \in BOOLEAN, j \in 0..(JitterCeil - 1) :
    CallQueueLoadBacklog(c, didFail, j)

SpecBackoff == InitWith("load", 1) /\ [][NextBackoff]_vars

\* The reap queue with maxWorkerCount = 2 started when every channel already
\* has an entry that is due (QueueReap was called for each before
\* reapScheduler runs), the clock standing still, every reap run ending in the
\* reschedule path at a later time, and fair scheduling of every goroutine.
InitThree ==
  /\ wfunc = "reap"
  /\ maxWorkerCount = 2
  /\ now = 1
  /\ items = Upsert(Upsert(Upsert(<<>>, 1, 1), 2, 1), 3, 1)
  /\ locker = "free"
  /\ qtimer = [at |-> 1, c |-> 0]
  /\ watcher = "recv"
  /\ sched = [pc |-> "start", now |-> 0, it |-> NoItem, ch |-> NoChan]
  /\ dtimer = "none"
  /\ controlCh = 0
  /\ curWork = {}
  /\ workers = [w \in Slots |-> NoWorker]
  /\ loadFailures = [c \in Chans |-> 0]
  /\ lastSet = [c \in Chans |-> IF c \in 1..3 THEN <<1>> ELSE <<>>]
  /\ dropped = {}
  /\ loadRetries = [c \in Chans |-> -1]
  /\ calls = [c \in Chans |-> <<>>]

NextThree == TimerStep \/ SchedStep \/ ReapRunStep({MaxTime}, {FALSE})

SpecThree ==
  /\ InitThree
  /\ [][NextThree]_vars
  /\ WF_vars(TimerStep)
  /\ WF_vars(SchedStep)
  /\ WF_vars(ReapRunStep({MaxTime}, {FALSE}))

\* Consecutive failing loads of one channel: QueueLoadBacklog(c, true) called
\* MaxCalls times from a stored delay of 0, with every jitter mrand.Intn can
\* return.
NextRetry == \E j \in 0..(JitterCeil - 1) : RetryLoadBacklog(1, j)

SpecRetry == InitWith("load", 1) /\ [][NextRetry]_vars

\* The backlog-load queue under the scheduling the Go runtime gives: the timer
\* goroutine, the dispatcher and the workers each take a step when they can.
\* Calls of Update from outside are not forced to come.
NextLoadFair == UpdateStep(PoolChans, {now}) \/ TimerStep \/ SchedStep \/ LoadStep

SpecLoadFair ==
  /\ InitWith("load", MaxWorkers)
  /\ [][NextLoadFair]_vars
  /\ WF_vars(TimerStep)
  /\ WF_vars(SchedStep)
  /\ WF_vars(LoadStep)

\* The reap queue started when every channel already has an entry (QueueReap
\* was called for each before reapScheduler runs) and no Update follows: every
\* run finds its channel disabled.  The clock, the timer goroutine, the
\* dispatcher and the worker each take a step when they can.
InitWake ==
  \E t1 \in DueTimes, t2 \in DueTimes, t3 \in DueTimes :
    /\ wfunc = "reap"
    /\ maxWorkerCount = 1
    /\ now = 1
    /\ items = Upsert(Upsert(Upsert(<<>>, 1, t1), 2, t2), 3, t3)
    /\ locker = "free"
    /\ qtimer = [at |-> 1, c |-> 0]
    /\ watcher = "recv"
    /\ sched = [pc |-> "start", now |-> 0, it |-> NoItem, ch |-> NoChan]
    /\ dtimer = "none"
    /\ controlCh = 0
    /\ curWork = {}
    /\ workers = [w \in Slots |-> NoWorker]
    /\ loadFailures = [c \in Chans |-> 0]
    /\ lastSet = [c \in Chans |-> IF c = 1 THEN <<t1>> ELSE IF c = 2 THEN <<t2>>
                                  ELSE IF c = 3 THEN <<t3>> ELSE <<>>]
    /\ dropped = {}
    /\ loadRetries = [c \in Chans |-> -1]
  /\ calls = [c \in Chans |-> <<>>]

WorkerDiscards == \E w \in Slots : ReapDisabled(w)

NextWake == Tick \/ TimerStep \/ PromptStep \/ WorkerDiscards

SpecWake ==
  /\ InitWake
  /\ [][NextWake]_vars
  /\ WF_vars(Tick)
  /\ WF_vars(TimerStep)
  /\ WF_vars(PromptStep)
  /\ WF_vars(WorkerDiscards)

\* ------------------------------------------------------------------ claims
Entries(c) == {i \in 1..Len(items) : items[i].ch = c}

\* C1: the heap holds at most one entry per channel, and the nextReap of that
\* entry is the t of the latest Update of the channel since it was last popped.
C1_OneEntryLatestDue ==
  \A c \in Chans :
    /\ Cardinality(Entries(c)) <= 1
    /\ \A i \in Entries(c) : lastSet[c] = <<items[i].nextReap>>

\* C1 witness: after a pop and a hand-off, every channel has an entry again and
\* one was moved to the latest deadline.
C1_Witness ==
  /\ Len(items) = NumChans
  /\ curWork # {}
  /\ \E c \in Chans : lastSet[c] = <<MaxTime>>
  /\ \E c \in Chans : lastSet[c] = <<zeroTime>>

\* C2: WaitForNext pops only an entry that exists and whose nextReap is not
\* after the clock value it read.
C2_PoppedIsDue ==
  sched.pc = "popped" =>
    /\ sched.it.ch \in Chans
    /\ sched.it.nextReap <= sched.now
    /\ sched.now <= now

\* C2 witness: an entry that was in the future when the clock started is popped.
C2_Witness ==
  /\ sched.pc = "popped"
  /\ sched.it.nextReap = MaxTime
  /\ sched.now = MaxTime

InSend == sched.pc \in {"send", "select", "select2", "drain"}

Processing(c) == {w \in Slots : workers[w].st = "work" /\ workers[w].ch = c}

\* workers that still hold c, the reschedule after delete(q.curWork, c) included
Holding(c) == {w \in Slots : workers[w].st \in {"work", "requeue"} /\ workers[w].ch = c}

LiveWorkers == {w \in Slots : Live(w)}

\* C4: a channel that is being dispatched or processed is in the in-flight set
\* and is held by one goroutine only: never two workers processing the same
\* channel, never a hand-off of a channel a worker is still processing.
C4_NoDoubleProcessing ==
  \A c \in Chans :
    LET holders == Cardinality(Processing(c)) + (IF InSend /\ sched.ch = c THEN 1 ELSE 0)
    IN /\ holders <= 1
       /\ holders = 1 => c \in curWork
       /\ Cardinality(Holding(c)) <= 1

\* C4 witness: a channel was upserted and popped again while a worker is
\* still processing it, and the dispatcher is at the in-flight gate with it.
C4_Witness ==
  /\ sched.pc = "gate"
  /\ sched.ch \in curWork
  /\ Processing(sched.ch) # {}

\* C5: the live workers of the queue number at most maxWorkerCount.
C5_PoolBound == Cardinality(LiveWorkers) <= maxWorkerCount

\* C5 witness: the pool is at its maximum and the dispatcher, after a hand-off
\* timeout, is trying to start one more worker.
C5_Witness ==
  /\ sched.pc = "select2"
  /\ Cardinality(LiveWorkers) = maxWorkerCount
  /\ \A w \in LiveWorkers : workers[w].st = "work"

\* C6: the floor worker (mayTimeout = false) never returns through the
\* timer branch of its select, whichever worker function it runs.
C6_FloorNeverExits ==
  \A w \in Slots : ~(workers[w].st = "exited" /\ ~workers[w].mayTimeout)

\* C7: every item passed to sendWorkItem is eventually accepted by a worker
\* and sendWorkItem returns.
C7_DispatchCompletes == InSend ~> (sched.pc = "lock")

\* what C8 asks of every step
C8_Step ==
  /\ InSend => locker = "free"
  /\ (sched.pc = "popped" /\ sched'.pc # "popped") =>
       sched'.pc = "gate" /\ sched'.ch = sched.it.ch
  /\ (sched.pc = "gate" /\ sched'.pc # "gate") =>
       \/ sched.ch \in curWork /\ sched'.pc = "lock"
       \/ sched'.pc = "send" /\ sched'.ch = sched.ch /\ sched.ch \in curWork'
  /\ (InSend /\ InSend') => sched'.ch = sched.ch
  /\ (InSend /\ ~InSend') =>
       \E w \in Slots : /\ workers[w].st = "idle"
                        /\ workers'[w].st = "work"
                        /\ workers'[w].ch = sched.ch

\* C8: while the dispatcher is inside sendWorkItem the heap lock is free for
\* Update, and a popped channel leaves the dispatcher only by the in-flight
\* gate's discard or by a hand-off to a worker.
C8_BackpressureOnDispatcherOnly == [][C8_Step]_vars

\* C8 witness: the pool is saturated, the dispatcher is blocked in the inner
\* select, and an Update has put the channel being dispatched back in the heap.
C8_Witness ==
  /\ sched.pc = "select2"
  /\ controlCh = maxWorkerCount
  /\ \A w \in LiveWorkers : workers[w].st = "work"
  /\ Entries(sched.ch) # {}
  /\ locker = "free"

\* what C9 asks of every step
C9_Step ==
  \A c \in Chans :
    loadFailures'[c] # loadFailures[c] =>
      /\ loadFailures'[c] >= loadFailures[c]
      /\ 2 * loadFailures[c] <= loadFailures'[c]
      /\ loadFailures'[c] < 2 * loadFailures[c] + JitterCeil
      /\ lastSet'[c] = <<now + loadFailures'[c]>>

\* C9: every call that changes the stored load delay of a channel raises it
\* to a value in [2*previous, 2*previous + 5s) and schedules the channel at
\* now + that value.
C9_BackoffGrows == [][C9_Step]_vars

\* what C10 asks of every step
C10_Step ==
  /\ (dropped' # dropped) => (items' = items /\ lastSet' = lastSet)
  /\ \A c \in dropped' :
       /\ Processing(c)' = {}
       /\ ~(InSend' /\ sched'.ch = c)

\* C10: the reap worker that gets a critical authorization error for a channel
\* does not upsert it, and from then on the channel is never dispatched to or
\* processed by a worker again, whoever upserts it.
C10_CriticalDropIsFinal == [][C10_Step]_vars

\* C10 witness: a dropped channel was upserted by someone else, became due and
\* was popped again.
C10_Witness ==
  /\ sched.pc = "gate"
  /\ sched.ch \in dropped

\* an Update of some channel takes place in this step
Updated == \E c \in Chans : lastSet'[c] # lastSet[c] /\ lastSet'[c] # <<>>

\* what C11 asks of every step
C11_Step ==
  /\ (sched.pc = "wait" /\ Updated) => sched'.pc = "woken"
  /\ (sched.pc = "woken" /\ sched'.pc = "armed") =>
       qtimer'.at = Peek(items).nextReap + GuardInterval
  /\ (sched'.pc = "wait" /\ items' # <<>> /\ qtimer'.at # -1) =>
       qtimer'.at = Peek(items').nextReap + GuardInterval
  /\ (sched.pc # "popped" /\ sched'.pc = "popped") =>
       /\ lastSet[sched'.it.ch] = <<sched'.it.nextReap>>
       /\ sched'.it.nextReap <= now
       /\ \A i \in 1..Len(items') : items'[i].ch # sched'.it.ch

Rescheduled(c) == lastSet[c] = <<MaxTime>>

\* C12: with maxWorkerCount = 2 and three channels due at the same time, each
\* of the three is eventually handed to a worker, processed and rescheduled.
C12_AllThreeProcessed == <>(\A c \in 1..3 : Rescheduled(c))

\* the first delay of the sequence that is not 0, or 0 when there is none
FirstNonzero(ds) ==
  IF \E i \in 1..Len(ds) : ds[i] # 0
  THEN ds[CHOOSE i \in 1..Len(ds) : ds[i] # 0 /\ \A k \in 1..(i - 1) : ds[k] = 0]
  ELSE 0

\* C13 as stated: after three consecutive failing calls from a stored delay of
\* 0, the third scheduled delay is at least 4 times the first nonzero delay.
C13_ThirdIsFourTimesFirstNonzero ==
  \A c \in Chans :
    Len(calls[c]) >= 3 => calls[c][3] >= 4 * FirstNonzero(SubSeq(calls[c], 1, 3))

\* C13 as amended: after three consecutive failing calls from a stored delay
\* of 0, the third scheduled delay is at least 4 times the delay scheduled by
\* the first call.
C13_ThirdIsFourTimesFirst ==
  \A c \in Chans : Len(calls[c]) >= 3 => calls[c][3] >= 4 * calls[c][1]

\* C13 witness: three failing calls, the first with a nonzero jitter and the
\* others with jitter 0, so that the third delay is exactly 4 times the first.
C13_Witness ==
  /\ Len(calls[1]) >= 3
  /\ calls[1][1] > 0
  /\ calls[1][3] = 4 * calls[1][1]
  /\ loadFailures[1] >= calls[1][3]

\* what C14 asks of every step
C14_Step ==
  \A w \in Slots :
    (workers[w].st = "work" /\ workers'[w].st # "work") => workers[w].ch \notin curWork'

\* C14: when a worker leaves the unit of work it received for a channel, by
\* finishing it or by discarding it, the channel is no longer in q.curWork.
C14_MarkerRemovedByWorker == [][C14_Step]_vars

\* C15: whenever the dispatch loop pops an entry of a channel and discards it
\* because the channel is in q.curWork, the channel eventually has an entry in
\* the queue again, put there by the run in progress.
C15_DiscardedIsServed ==
  \A c \in Chans :
    (sched.pc = "gate" /\ sched.ch = c /\ c \in curWork) ~> (Entries(c) # {})

InWaitForNext == sched.pc \in {"lock", "woken", "armed", "wait"}

\* C16: with no further Update, a waiter that is in WaitForNext while the
\* queue holds an entry eventually pops an entry.
C16_NoLostWakeup == (InWaitForNext /\ items # <<>>) ~> (sched.pc = "popped")

\* C17: a worker started with mayTimeout = true that waits for an item
\* eventually receives one or returns, giving up its slot.
C17_TransientTerminates ==
  \A w \in Slots :
    (workers[w].st = "idle" /\ workers[w].mayTimeout) ~> (workers[w].st \in {"work", "none"})

\* a reap worker goes through the reschedule of a run that asked for a refresh
Refreshes(w) ==
  wfunc = "reap" /\ workers[w].st = "requeue" /\ workers[w].refresh /\ workers'[w].st = "idle"

\* what C18 asks of every step, as stated
C18_StepImmediate ==
  \A w \in Slots :
    Refreshes(w) =>
      /\ lastSet'[workers[w].ch] # <<>>
      /\ loadFailures'[workers[w].ch] = loadFailures[workers[w].ch]
      /\ loadRetries'[workers[w].ch] = now

\* C18 as stated: after a reap run with the refresh flag the worker upserts
\* the channel into the reap queue and into the load queue at time.Now(),
\* the stored load delay left as it was.
C18_RefreshIsImmediate == [][C18_StepImmediate]_vars

\* what C18 asks of every step, as amended
C18_StepBackoff ==
  \A w \in Slots :
    /\ (wfunc = "reap" /\ workers[w].st = "work" /\ workers'[w].st = "requeue") =>
         workers[w].ch \notin curWork'
    /\ Refreshes(w) =>
         /\ \E i \in 1..Len(items') :
              items'[i].ch = workers[w].ch /\ lastSet'[workers[w].ch] = <<items'[i].nextReap>>
         /\ \E j \in 0..(JitterCeil - 1) :
              loadFailures'[workers[w].ch] = NextDelay(loadFailures[workers[w].ch], j)
         /\ loadRetries'[workers[w].ch] = now + loadFailures'[workers[w].ch]

\* C18 as amended: a reap run that ends in the reschedule path clears the
\* in-flight marker; with the refresh flag the worker then upserts the channel
\* into the reap queue and, through the backoff policy, into the load queue:
\* the stored load delay becomes twice itself plus a jitter below 5s, and the
\* channel is due in the load queue at time.Now() plus that delay.
C18_RefreshGoesThroughBackoff == [][C18_StepBackoff]_vars

\* C18 witness: a refresh was scheduled in the load queue later than now, and
\* the channel is back in the reap queue and out of the in-flight set.
C18_Witness ==
  /\ wfunc = "reap"
  /\ \E c \in Chans :
       /\ loadFailures[c] > 0
       /\ loadRetries[c] = now + loadFailures[c]
       /\ Entries(c) # {}
       /\ c \notin curWork

\* C19: the tokens buffered in q.controlCh number exactly the live workers.
C19_TokensMatchWorkers == controlCh = Cardinality(LiveWorkers)

\* C20: whenever the dispatcher is at `if !timer.Stop() { <-timer.C }` its
\* timer is armed or holds an unconsumed expiry, and it never waits there.
C20_StopDrainNeverBlocks ==
  /\ sched.pc = "send" => dtimer \in {"armed", "full"}
  /\ sched.pc # "drain"
====
